---- MODULE Spec2Model ----
(***************************************************************************)
(* The annotation store of simple-label-maker (AzureStorageService): where *)
(* an annotation lives in blob storage under the two key layouts, how it   *)
(* is written and read back, and what the prefix scans report.             *)
(*                                                                         *)
(* A JavaScript string is a sequence of UTF-16 code units (naturals), a    *)
(* blob is a sequence of bytes.  S("abc") turns a literal into such a      *)
(* sequence.                                                               *)
(***************************************************************************)
EXTENDS Integers, Sequences, FiniteSets, TLC

\* ------------------------------------------------------------------ text

\* The printable ASCII characters: code units 32..95 and 97..126 in order.
AsciiLow == " !\"#$%&'()*+,-./0123456789:;<=>?@ABCDEFGHIJKLMNOPQRSTUVWXYZ[\\]^_"
AsciiHigh == "abcdefghijklmnopqrstuvwxyz{|}~"

\* The character (a string of length 1) of a printable ASCII code unit.
Chr(n) == IF n <= 95 THEN SubSeq(AsciiLow, n - 31, n - 31) ELSE SubSeq(AsciiHigh, n - 96, n - 96)

\* The code unit of a printable ASCII character.
Ord(c) == CHOOSE n \in (32..95) \cup (97..126) : Chr(n) = c

\* A string literal as a sequence of code units.
S(lit) == [i \in 1..Len(lit) |-> Ord(SubSeq(lit, i, i))]

\* The code units the model names.
C ==
    [percent |-> Ord("%"),
     comma |-> Ord(","),
     dot |-> Ord("."),
     slash |-> Ord("/"),
     colon |-> Ord(":"),
     quote |-> Ord("\""),
     backslash |-> Ord("\\"),
     underscore |-> Ord("_"),
     b |-> Ord("b"),
     f |-> Ord("f"),
     n |-> Ord("n"),
     r |-> Ord("r"),
     t |-> Ord("t"),
     u |-> Ord("u"),
     lbrace |-> Ord("{"),
     rbrace |-> Ord("}")]

\* The string literals of the source and of the inputs.
T ==
    [blank |-> S(" "),
     comma |-> S(","),
     dotJson |-> S(".json"),
     slash |-> S("/"),
     hexDigits |-> S("0123456789abcdef"),
     colonSpace |-> S(": "),
     quote |-> S("\""),
     escQuote |-> S("\\\""),
     escBackslash |-> S("\\\\"),
     escB |-> S("\\b"),
     escF |-> S("\\f"),
     escN |-> S("\\n"),
     escR |-> S("\\r"),
     escT |-> S("\\t"),
     escU00 |-> S("\\u00"),
     underscore |-> S("_"),
     a |-> S("a"),
     annotations |-> S("annotations"),
     b |-> S("b"),
     d |-> S("d"),
     data |-> S("samples"),
     hi |-> S("hi"),
     http |-> S("http"),
     httpUrl |-> S("http://h/x"),
     httpScheme |-> S("http://"),
     httpsScheme |-> S("https://"),
     containerUrl |-> S("https://acct.blob/c"),
     id |-> S("id"),
     n |-> S("n"),
     null |-> S("null"),
     s |-> S("s"),
     s_t |-> S("s_t"),
     s_dot_t |-> S("s.t"),
     t_u |-> S("t_u"),
     sampleId |-> S("sampleId"),
     u |-> S("u"),
     s_v |-> S("s_v"),
     userId |-> S("userId"),
     userName |-> S("userName"),
     v |-> S("v"),
     x |-> S("x"),
     encodedSlash |-> S("%2F"),
     twiceEncodedSlash |-> S("%252F"),
     encodedTraversal |-> S("%2e%2e%2f%2E%2E%5Cx"),
     encodedAccent |-> S("%C3%A9"),
     traversal |-> S("../../etc/passwd"),
     sanAlphabet |-> S("%20F5./\\ s"),
     lbrace |-> S("{"),
     emptyObject |-> S("{}"),
     rbrace |-> S("}")]

RECURSIVE Concat(_)
\* The concatenation of a sequence of strings.
Concat(parts) == IF parts = <<>> THEN <<>> ELSE Head(parts) \o Concat(Tail(parts))

\* s.startsWith(p), s.endsWith(p), s.includes(c)
StartsWith(s, p) == Len(s) >= Len(p) /\ SubSeq(s, 1, Len(p)) = p
EndsWith(s, p) == Len(s) >= Len(p) /\ SubSeq(s, Len(s) - Len(p) + 1, Len(s)) = p
Includes(s, c) == \E i \in 1..Len(s) : s[i] = c

\* The positions at which p occurs in s.
Occurrences(s, p) == {i \in 1..(Len(s) - Len(p) + 1) : SubSeq(s, i, i + Len(p) - 1) = p}

\* s.replace(p, r) with a string pattern: only the first occurrence is replaced.
ReplaceFirst(s, p, r) ==
    IF Occurrences(s, p) = {} THEN s
    ELSE LET i == CHOOSE j \in Occurrences(s, p) : \A k \in Occurrences(s, p) : j <= k
         IN  SubSeq(s, 1, i - 1) \o r \o SubSeq(s, i + Len(p), Len(s))

RECURSIVE Split(_, _)
\* s.split(c) for a one-character separator c: the pieces between the separators.
Split(s, c) ==
    IF ~Includes(s, c) THEN <<s>>
    ELSE LET i == CHOOSE j \in 1..Len(s) : s[j] = c /\ \A k \in 1..(j - 1) : s[k] # c
         IN  <<SubSeq(s, 1, i - 1)>> \o Split(SubSeq(s, i + 1, Len(s)), c)

RECURSIVE Join(_, _)
\* parts.join(sep)
Join(parts, sep) ==
    IF parts = <<>> THEN <<>>
    ELSE IF Len(parts) = 1 THEN parts[1]
    ELSE parts[1] \o sep \o Join(Tail(parts), sep)

\* The code units String.prototype.trim removes (WhiteSpace and LineTerminator).
IsWhiteSpace(c) ==
    c \in {9, 10, 11, 12, 13, 32, 160, 5760, 8232, 8233, 8239, 8287, 12288, 65279}
        \cup (8192..8202)

\* input.trim() === ''
TrimIsEmpty(s) == \A i \in 1..Len(s) : IsWhiteSpace(s[i])

\* ------------------------------------------------- decodeURIComponent

\* The value of a hexadecimal digit, -1 for any other code unit.
HexVal(c) ==
    IF c \in 48..57 THEN c - 48
    ELSE IF c \in 65..70 THEN c - 55
    ELSE IF c \in 97..102 THEN c - 87
    ELSE -1

\* Whether s holds an escape %XX at position i, and the octet it stands for.
HasEscape(s, i) ==
    /\ i + 2 <= Len(s)
    /\ s[i] = C.percent
    /\ HexVal(s[i + 1]) >= 0
    /\ HexVal(s[i + 2]) >= 0
EscapeOctet(s, i) == 16 * HexVal(s[i + 1]) + HexVal(s[i + 2])

\* The number of octets of the UTF-8 sequence a leading octet b announces
\* (0: b cannot lead a sequence).
Utf8SeqLen(b) ==
    IF b < 128 THEN 1
    ELSE IF b \in 192..223 THEN 2
    ELSE IF b \in 224..239 THEN 3
    ELSE IF b \in 240..247 THEN 4
    ELSE 0

\* The code point of a UTF-8 sequence of octets, -1 when the sequence is not
\* the shortest encoding of a code point (overlong, surrogate, out of range).
Utf8CodePoint(octets) ==
    LET n  == Len(octets)
        cp == IF n = 1 THEN octets[1]
              ELSE IF n = 2 THEN (octets[1] - 192) * 64 + (octets[2] - 128)
              ELSE IF n = 3 THEN (octets[1] - 224) * 4096 + (octets[2] - 128) * 64
                                 + (octets[3] - 128)
              ELSE (octets[1] - 240) * 262144 + (octets[2] - 128) * 4096
                   + (octets[3] - 128) * 64 + (octets[4] - 128)
        lo == IF n = 1 THEN 0 ELSE IF n = 2 THEN 128 ELSE IF n = 3 THEN 2048 ELSE 65536
    IN  IF /\ \A i \in 2..n : octets[i] \in 128..191
           /\ cp >= lo
           /\ cp <= 1114111
           /\ cp \notin 55296..57343
        THEN cp ELSE -1

\* The UTF-16 code units of a code point.
Utf16Units(cp) ==
    IF cp < 65536 THEN <<cp>>
    ELSE <<55296 + ((cp - 65536) \div 1024), 56320 + ((cp - 65536) % 1024)>>

RECURSIVE DecodeFrom(_, _)
\* decodeURIComponent from position i on: [ok, val], ok = FALSE for a URIError.
DecodeFrom(s, i) ==
    IF i > Len(s) THEN [ok |-> TRUE, val |-> <<>>]
    ELSE IF s[i] # C.percent THEN
        LET rest == DecodeFrom(s, i + 1)
        IN  [ok |-> rest.ok, val |-> <<s[i]>> \o rest.val]
    ELSE IF ~HasEscape(s, i) THEN [ok |-> FALSE, val |-> <<>>]
    ELSE
        LET b == EscapeOctet(s, i)
            n == Utf8SeqLen(b)
        IN  IF n = 0 \/ ~(\A k \in 1..(n - 1) : HasEscape(s, i + 3 * k))
            THEN [ok |-> FALSE, val |-> <<>>]
            ELSE LET octets == [k \in 1..n |-> EscapeOctet(s, i + 3 * (k - 1))]
                     cp     == Utf8CodePoint(octets)
                     rest   == DecodeFrom(s, i + 3 * n)
                 IN  IF cp < 0 THEN [ok |-> FALSE, val |-> <<>>]
                     ELSE [ok |-> rest.ok, val |-> Utf16Units(cp) \o rest.val]

decodeURIComponent(s) == DecodeFrom(s, 1)

\* ------------------------------------------------------- sanitizePath

\* The characters the regular expression /[\/\\\.%\x00]/g matches.
UnsafeChars == {C.slash, C.backslash, C.dot, C.percent, 0}

\* A faulty replacement, without the g flag: it replaces the first match only.
ReplaceFirstUnsafe(s) ==
    [i \in 1..Len(s) |-> IF s[i] \in UnsafeChars /\ \A j \in 1..(i - 1) : s[j] \notin UnsafeChars
                         THEN C.underscore ELSE s[i]]

\* decoded.replace(/[\/\\\.%\x00]/g, '_')
ReplaceUnsafe(s) == [i \in 1..Len(s) |-> IF s[i] \in UnsafeChars THEN C.underscore ELSE s[i]]

\* A faulty sanitizePath, without the check for an empty component.
sanitizePathUnchecked(input) ==
    LET d       == decodeURIComponent(input)
        decoded == IF d.ok THEN d.val ELSE input
    IN  [ok |-> TRUE, val |-> ReplaceUnsafe(decoded)]

\* sanitizePath(input): [ok, val]; ok = FALSE is the thrown
\* 'Path component cannot be empty'.
sanitizePath(input) ==
    IF input = <<>> \/ TrimIsEmpty(input) THEN [ok |-> FALSE, val |-> <<>>]
    ELSE LET d       == decodeURIComponent(input)
             decoded == IF d.ok THEN d.val ELSE input
         IN  [ok |-> TRUE, val |-> ReplaceUnsafe(decoded)]

\* --------------------------------------------------------------- UTF-8

\* The octets of one code unit below the surrogate range in UTF-8.
Utf8OfUnit(c) ==
    IF c < 128 THEN <<c>>
    ELSE IF c < 2048 THEN <<192 + (c \div 64), 128 + (c % 64)>>
    ELSE <<224 + (c \div 4096), 128 + ((c \div 64) % 64), 128 + (c % 64)>>

RECURSIVE Utf8Encode(_)
\* The bytes the blob client sends for a string body (the string is encoded
\* half by half).
Utf8Encode(s) ==
    IF Len(s) = 0 THEN <<>>
    ELSE IF Len(s) = 1 THEN Utf8OfUnit(s[1])
    ELSE LET h == Len(s) \div 2
         IN  Utf8Encode(SubSeq(s, 1, h)) \o Utf8Encode(SubSeq(s, h + 1, Len(s)))

\* Buffer.byteLength(s) and s.length
ByteLength(s) == Len(Utf8Encode(s))
StringLength(s) == Len(s)

\* The code point of the well-formed UTF-8 sequence that starts at byte i, -1 if
\* none does.
Utf8At(b, i) ==
    LET n == Utf8SeqLen(b[i])
    IN  IF n = 0 \/ i + n - 1 > Len(b) THEN -1 ELSE Utf8CodePoint(SubSeq(b, i, i + n - 1))

\* Byte i continues a well-formed sequence that starts before it.
Utf8Covered(b, i) ==
    \E j \in 1..(i - 1) : j >= i - 3 /\ Utf8At(b, j) >= 0 /\ j + Utf8SeqLen(b[j]) > i

RECURSIVE Utf8DecodeRange(_, _, _)
\* Buffer.toString('utf-8') of bytes lo..hi: a well-formed sequence gives its
\* code point, a byte outside one gives U+FFFD (the range is decoded half by
\* half).
Utf8DecodeRange(b, lo, hi) ==
    IF lo > hi THEN <<>>
    ELSE IF lo = hi THEN
        IF Utf8Covered(b, lo) THEN <<>>
        ELSE IF Utf8At(b, lo) >= 0 THEN Utf16Units(Utf8At(b, lo))
        ELSE <<65533>>
    ELSE LET mid == (lo + hi) \div 2
         IN  Utf8DecodeRange(b, lo, mid) \o Utf8DecodeRange(b, mid + 1, hi)

Utf8Decode(b) == Utf8DecodeRange(b, 1, Len(b))

\* ---------------------------------------------------------------- JSON
\* A JavaScript value is [t |-> "null"], [t |-> "str", s |-> string] or
\* [t |-> "obj", m |-> members], members a sequence of <<key, value>> in
\* insertion order.

JsNull == [t |-> "null"]
JsStr(s) == [t |-> "str", s |-> s]
JsObj(m) == [t |-> "obj", m |-> m]

\* QuoteJSONString for one code unit.
JsonEscape(c) ==
    IF c = C.quote THEN T.escQuote
    ELSE IF c = C.backslash THEN T.escBackslash
    ELSE IF c = 8 THEN T.escB
    ELSE IF c = 9 THEN T.escT
    ELSE IF c = 10 THEN T.escN
    ELSE IF c = 12 THEN T.escF
    ELSE IF c = 13 THEN T.escR
    ELSE IF c < 32 THEN T.escU00 \o <<T.hexDigits[(c \div 16) + 1], T.hexDigits[(c % 16) + 1]>>
    ELSE <<c>>

RECURSIVE JsonEscapeAll(_)
JsonEscapeAll(s) == IF s = <<>> THEN <<>> ELSE JsonEscape(Head(s)) \o JsonEscapeAll(Tail(s))

JsonQuote(s) == T.quote \o JsonEscapeAll(s) \o T.quote

Spaces(n) == [i \in 1..n |-> 32]

RECURSIVE JsonStringifyAt(_, _)
\* JSON.stringify(v, null, 2) of a value that sits at indentation ind.
JsonStringifyAt(v, ind) ==
    IF v.t = "null" THEN T.null
    ELSE IF v.t = "str" THEN JsonQuote(v.s)
    ELSE IF v.m = <<>> THEN T.emptyObject
    ELSE LET line(i) == Spaces(ind + 2) \o JsonQuote(v.m[i][1]) \o T.colonSpace
                        \o JsonStringifyAt(v.m[i][2], ind + 2)
         IN  T.lbrace \o <<10>> \o Join([i \in 1..Len(v.m) |-> line(i)], T.comma \o <<10>>)
             \o <<10>> \o Spaces(ind) \o T.rbrace

JsonStringify(v) == JsonStringifyAt(v, 0)

\* JSON.parse, for the texts that occur in the model: objects, strings and
\* null (no stored text holds a number, an array or a boolean).  A result is
\* [ok, val, pos]: ok = FALSE is a SyntaxError, pos the position after the value.

JsonWs == {32, 9, 10, 13}

RECURSIVE SkipWs(_, _)
SkipWs(t, i) == IF i <= Len(t) /\ t[i] \in JsonWs THEN SkipWs(t, i + 1) ELSE i

ParseFail == [ok |-> FALSE, val |-> JsNull, pos |-> 0]

\* The character a two-character escape \c stands for, -1 if there is none.
JsonUnescape(c) ==
    IF c \in {C.quote, C.backslash, C.slash} THEN c
    ELSE IF c = C.b THEN 8
    ELSE IF c = C.f THEN 12
    ELSE IF c = C.n THEN 10
    ELSE IF c = C.r THEN 13
    ELSE IF c = C.t THEN 9
    ELSE -1

\* One character of a string literal read at i: [ok, c, next].
StringChar(t, i) ==
    LET isEsc == t[i] = C.backslash
        isU   == isEsc /\ i + 1 <= Len(t) /\ t[i + 1] = C.u
        okU   == isU /\ i + 5 <= Len(t) /\ \A k \in 2..5 : HexVal(t[i + k]) >= 0
        okE   == isEsc /\ ~isU /\ i + 1 <= Len(t) /\ JsonUnescape(t[i + 1]) >= 0
    IN  IF okU THEN [ok |-> TRUE, next |-> i + 6,
                     c |-> 4096 * HexVal(t[i + 2]) + 256 * HexVal(t[i + 3])
                           + 16 * HexVal(t[i + 4]) + HexVal(t[i + 5])]
        ELSE IF okE THEN [ok |-> TRUE, next |-> i + 2, c |-> JsonUnescape(t[i + 1])]
        ELSE [ok |-> ~isEsc, next |-> i + 1, c |-> t[i]]

PrependChar(c, rest) == [ok |-> rest.ok, val |-> <<c>> \o rest.val, pos |-> rest.pos]

RECURSIVE ParseStringBody(_, _)

ParseStringAfter(t, ch) ==
    IF ch.ok THEN PrependChar(ch.c, ParseStringBody(t, ch.next))
    ELSE [ok |-> FALSE, val |-> <<>>, pos |-> 0]

\* The characters of a string literal whose opening quote is at i - 1.
ParseStringBody(t, i) ==
    IF i > Len(t) \/ t[i] < 32 THEN [ok |-> FALSE, val |-> <<>>, pos |-> 0]
    ELSE IF t[i] = C.quote THEN [ok |-> TRUE, val |-> <<>>, pos |-> i + 1]
    ELSE ParseStringAfter(t, StringChar(t, i))

\* members with key k bound to v: a repeated key keeps its place and takes the
\* later value.
PutMember(m, k, v) ==
    IF \E i \in 1..Len(m) : m[i][1] = k
    THEN [i \in 1..Len(m) |-> IF m[i][1] = k THEN <<k, v>> ELSE m[i]]
    ELSE Append(m, <<k, v>>)

StringValue(r) ==
    IF r.ok THEN [ok |-> TRUE, val |-> JsStr(r.val), pos |-> r.pos] ELSE ParseFail

RECURSIVE ParseValue(_, _)
RECURSIVE ParseMembers(_, _, _)

\* The object whose first token after the opening brace is at k.
ParseObjectAt(t, k) ==
    IF k <= Len(t) /\ t[k] = C.rbrace
    THEN [ok |-> TRUE, val |-> JsObj(<<>>), pos |-> k + 1]
    ELSE ParseMembers(t, k, <<>>)

\* The value whose first token is at j.
ParseValueAt(t, j) ==
    IF j > Len(t) THEN ParseFail
    ELSE IF t[j] = C.quote THEN StringValue(ParseStringBody(t, j + 1))
    ELSE IF t[j] = C.lbrace THEN ParseObjectAt(t, SkipWs(t, j + 1))
    ELSE IF j + 3 <= Len(t) /\ SubSeq(t, j, j + 3) = T.null
        THEN [ok |-> TRUE, val |-> JsNull, pos |-> j + 4]
    ELSE ParseFail

ParseValue(t, i) == ParseValueAt(t, SkipWs(t, i))

\* After a member's value v, at e: a comma and more members, or the closing brace.
ParseMembersEnd(t, e, acc2) ==
    IF e > Len(t) THEN ParseFail
    ELSE IF t[e] = C.comma THEN ParseMembers(t, SkipWs(t, e + 1), acc2)
    ELSE IF t[e] = C.rbrace THEN [ok |-> TRUE, val |-> JsObj(acc2), pos |-> e + 1]
    ELSE ParseFail

ParseMemberValue(t, acc, key, v) ==
    IF v.ok THEN ParseMembersEnd(t, SkipWs(t, v.pos), PutMember(acc, key, v.val))
    ELSE ParseFail

\* After a member's key, at c: the colon and the value.
ParseMemberColon(t, acc, key, c) ==
    IF c > Len(t) \/ t[c] # C.colon THEN ParseFail
    ELSE ParseMemberValue(t, acc, key, ParseValue(t, c + 1))

ParseMemberKey(t, acc, key) ==
    IF key.ok THEN ParseMemberColon(t, acc, key.val, SkipWs(t, key.pos))
    ELSE ParseFail

\* The members of an object from the key that must start at i on.
ParseMembers(t, i, acc) ==
    IF i > Len(t) \/ t[i] # C.quote THEN ParseFail
    ELSE ParseMemberKey(t, acc, ParseStringBody(t, i + 1))

ParseEnd(text, r) ==
    IF r.ok /\ SkipWs(text, r.pos) > Len(text)
    THEN [ok |-> TRUE, val |-> r.val]
    ELSE [ok |-> FALSE, val |-> JsNull]

\* JSON.parse(text): [ok, val]
JsonParse(text) == ParseEnd(text, ParseValue(text, 1))

\* ------------------------------------------------- project configuration

\* config.azureStorage.annotationsPath and dataPath of the loaded project.
annotationsPath == T.annotations
dataPath == T.data

\* An Annotation as the route builds it; the store reads sampleId and userId
\* and serializes the rest unseen.
Annotation(id, sampleId, userId, userName) ==
    JsObj(<< <<T.id, JsStr(id)>>, <<T.sampleId, JsStr(sampleId)>>,
             <<T.userId, JsStr(userId)>>, <<T.userName, JsStr(userName)>> >>)

\* obj[key] of an object that has the member.
Member(obj, key) == LET i == CHOOSE j \in 1..Len(obj.m) : obj.m[j][1] = key IN obj.m[i][2]

SampleIdOf(a) == Member(a, T.sampleId).s
UserIdOf(a) == Member(a, T.userId).s

\* ------------------------------------------------------------ blob keys

\* `${annotationsPath}/${sanitizedUserId}/${sanitizedSampleId}.json`
CurrentPath(sanitizedUserId, sanitizedSampleId) ==
    Concat(<<annotationsPath, T.slash, sanitizedUserId, T.slash, sanitizedSampleId, T.dotJson>>)

\* `${annotationsPath}/${sanitizedSampleId}_${sanitizedUserId}.json`
LegacyPath(sanitizedUserId, sanitizedSampleId) ==
    Concat(<<annotationsPath, T.slash, sanitizedSampleId, T.underscore, sanitizedUserId, T.dotJson>>)

\* `${dataPath}/${sample.fileName}`
DataPath(fileName) == Concat(<<dataPath, T.slash, fileName>>)

\* ----------------------------------------------------- the blob container
\* A container is a function from the names of its blobs to their bytes.

\* Lexicographic order of names, the order of a listing.
StrLess(a, b) ==
    \E i \in 1..Len(b) :
        /\ i <= Len(a) + 1
        /\ SubSeq(a, 1, i - 1) = SubSeq(b, 1, i - 1)
        /\ (i > Len(a) \/ a[i] < b[i])

RECURSIVE SortNames(_)
SortNames(names) ==
    IF names = {} THEN <<>>
    ELSE LET first == CHOOSE n \in names : \A o \in names \ {n} : StrLess(n, o)
         IN  <<first>> \o SortNames(names \ {first})

\* containerClient.listBlobsFlat({ prefix }): the names with the prefix, in order.
ListBlobsFlat(b, prefix) == SortNames({n \in DOMAIN b : StartsWith(n, prefix)})

\* blobClient.exists()
BlobExists(b, name) == name \in DOMAIN b

\* What the service may hold after upload(body, contentLength): the first
\* contentLength bytes of the body when the request is sent with the declared
\* length, the whole body when the transport recomputes the length.
UploadOutcomes(body, contentLength) ==
    LET bytes == Utf8Encode(body)
    IN  {SubSeq(bytes, 1, contentLength), bytes}

\* downloadBlobAsJson: the blob's bytes as UTF-8 text, parsed.
DownloadBlobAsJson(b, name) == JsonParse(Utf8Decode(b[name]))

\* --------------------------------------------------------- prefix scans

\* getProjectStats: the sample id the loop derives from one listed name
\* (<<>>: the name adds nothing).
StatsSampleId(name, prefix) ==
    LET fileName == ReplaceFirst(name, prefix, <<>>)
    IN  IF Includes(fileName, C.slash) THEN
            LET parts == Split(fileName, C.slash)
            IN  IF Len(parts) = 2 /\ parts[2] # <<>> /\ EndsWith(parts[2], T.dotJson)
                THEN ReplaceFirst(parts[2], T.dotJson, <<>>)
                ELSE <<>>
        ELSE Split(fileName, C.underscore)[1]

\* getProjectStats: annotatedIds after the scan of the annotations prefix.
StatsAnnotatedIds(b) ==
    LET prefix == annotationsPath \o T.slash
        names  == ListBlobsFlat(b, prefix)
    IN  {StatsSampleId(names[i], prefix) : i \in 1..Len(names)} \ {<<>>}

\* A faulty directory scan, which leaves the .json suffix on the ids.
UserDirSampleIdsUnstripped(b, sanitizedUserId) ==
    LET userPrefix == Concat(<<annotationsPath, T.slash, sanitizedUserId, T.slash>>)
        names      == ListBlobsFlat(b, userPrefix)
        fileName(i) == ReplaceFirst(names[i], userPrefix, <<>>)
    IN  {fileName(i) : i \in {j \in 1..Len(names) : EndsWith(fileName(j), T.dotJson)}}

\* getAnnotatedSampleIdsForUser: the ids the scan of the user's directory adds.
UserDirSampleIds(b, sanitizedUserId) ==
    LET userPrefix == Concat(<<annotationsPath, T.slash, sanitizedUserId, T.slash>>)
        names      == ListBlobsFlat(b, userPrefix)
        fileName(i) == ReplaceFirst(names[i], userPrefix, <<>>)
    IN  {ReplaceFirst(fileName(i), T.dotJson, <<>>) :
            i \in {j \in 1..Len(names) : EndsWith(fileName(j), T.dotJson)}} \ {<<>>}

\* A faulty legacy scan, which splits a name on its first underscore.
UserLegacySampleIdsFirstSplit(b, sanitizedUserId) ==
    LET legacyPrefix == annotationsPath \o T.slash
        names        == ListBlobsFlat(b, legacyPrefix)
        fileName(i)  == ReplaceFirst(names[i], legacyPrefix, <<>>)
        parts(i)     == Split(ReplaceFirst(fileName(i), T.dotJson, <<>>), C.underscore)
        sampleId(i)  == parts(i)[1]
        annotationUserId(i) == Join(SubSeq(parts(i), 2, Len(parts(i))), T.underscore)
    IN  {sampleId(i) :
            i \in {j \in 1..Len(names) :
                     /\ ~Includes(fileName(j), C.slash)
                     /\ Len(parts(j)) >= 2
                     /\ annotationUserId(j) = sanitizedUserId}}

\* getAnnotatedSampleIdsForUser: the ids the scan of the flat legacy names adds.
UserLegacySampleIds(b, sanitizedUserId) ==
    LET legacyPrefix == annotationsPath \o T.slash
        names        == ListBlobsFlat(b, legacyPrefix)
        fileName(i)  == ReplaceFirst(names[i], legacyPrefix, <<>>)
        parts(i)     == Split(ReplaceFirst(fileName(i), T.dotJson, <<>>), C.underscore)
        sampleId(i)  == Join(SubSeq(parts(i), 1, Len(parts(i)) - 1), T.underscore)
        annotationUserId(i) == parts(i)[Len(parts(i))]
    IN  {sampleId(i) :
            i \in {j \in 1..Len(names) :
                     /\ ~Includes(fileName(j), C.slash)
                     /\ Len(parts(j)) >= 2
                     /\ annotationUserId(j) = sanitizedUserId}}

\* getAnnotatedSampleIdsForUser: annotatedIds after both scans.
UserAnnotatedIds(b, sanitizedUserId) ==
    UserDirSampleIds(b, sanitizedUserId) \cup UserLegacySampleIds(b, sanitizedUserId)

\* listAnnotationsForSample: whether a listed name is fetched.
IsNewStructure(name, prefix, sanitizedSampleId) ==
    LET pathSegments == Split(ReplaceFirst(name, prefix, <<>>), C.slash)
    IN  /\ Len(pathSegments) = 2
        /\ Len(pathSegments[1]) > 0
        /\ pathSegments[2] = sanitizedSampleId \o T.dotJson

IsLegacyStructure(name, prefix, sanitizedSampleId) ==
    LET blobName == ReplaceFirst(name, prefix, <<>>)
    IN  StartsWith(blobName, sanitizedSampleId \o T.underscore) /\ EndsWith(blobName, T.dotJson)

RECURSIVE FetchAll(_, _)
\* The downloads of the listed names in order: [ok, val], ok = FALSE as soon as
\* one of them does not parse.
FetchAll(b, names) ==
    IF names = <<>> THEN [ok |-> TRUE, val |-> <<>>]
    ELSE LET first == DownloadBlobAsJson(b, Head(names))
             rest  == FetchAll(b, Tail(names))
         IN  IF first.ok /\ rest.ok THEN [ok |-> TRUE, val |-> <<first.val>> \o rest.val]
             ELSE [ok |-> FALSE, val |-> <<>>]

\* listAnnotationsForSample: the annotations array, or the parse error.
ListForSample(b, sanitizedSampleId) ==
    LET prefix == annotationsPath \o T.slash
        names  == ListBlobsFlat(b, prefix)
    IN  FetchAll(b, SelectSeq(names, LAMBDA n : IsNewStructure(n, prefix, sanitizedSampleId)
                                         \/ IsLegacyStructure(n, prefix, sanitizedSampleId)))

\* ------------------------------------------------------ bounds and inputs

\* At most MaxBlobs annotation blobs are ever in the container, fewer than
\* MaxBlobs of them written before the service starts.
MaxBlobs == 2

\* The identifiers callers pass: blank ones, plain ones, ones with an underscore.
SampleIds == {T.blank, T.s, T.s_t}
UserIds == {<<>>, T.u, T.v, T.s_v}

\* The users who submit annotations; the others only ask.
Annotators == {<<>>, T.u, T.s_v}

\* <<id, userName>> of the annotations callers submit; 233 is e with an acute accent.
Payloads == {<<T.a, T.n>>, <<T.b, <<233>>>>}

Annotations ==
    {Annotation(pl[1], s, u, pl[2]) : s \in SampleIds, u \in Annotators, pl \in Payloads}

\* config.samples, and the samples callers ask for.
samples ==
    << [id |-> T.s, fileName |-> T.d], [id |-> T.s_dot_t, fileName |-> T.x] >>
SampleInfos == {samples[i] : i \in 1..Len(samples)} \cup {[id |-> T.s_t, fileName |-> T.httpUrl]}

\* The URL of the container, the base of blobClient.url.
containerUrl == T.containerUrl

Procs == {1, 2}

NoAnnotation == [t |-> "none"]
Idle == [pc |-> "idle"]

VARIABLES
    config,           \* "null" or "loaded": this.config
    containerClient,  \* "null" or "client": this.containerClient
    blobs,            \* the container: blob name -> bytes
    procs,            \* per caller, the operation in progress with its locals, or the
                      \* operation that completed with its outcome
    lastSaved         \* per <<sampleId, userId>>, the annotation of the last completed save

vars == <<config, containerClient, blobs, procs, lastSaved>>

\* A faulty gate, which lets every call through.
InitializedAlways == TRUE

\* if (!this.containerClient || !this.config) throw ...: the condition negated.
Initialized == containerClient # "null" /\ config # "null"

\* The names of the annotation blobs of a container.
AnnotationBlobs(b) == {n \in DOMAIN b : StartsWith(n, annotationsPath \o T.slash)}

\* b with name bound to bytes.
Put(b, name, bytes) == [n \in DOMAIN b \cup {name} |-> IF n = name THEN bytes ELSE b[n]]

\* An outcome: st is "ok" or the kind of the error thrown.
\* The outcomes of an operation: it returns v, it throws an error of its own,
\* or a call of the blob client is rejected and the operation throws what the
\* call threw.  failed names the rejected call.
Ok(v) == [st |-> "ok", val |-> v, failed |-> "none"]
Err(kind) == [st |-> kind, val |-> JsNull, failed |-> "none"]
Rejected(call) == [st |-> "StorageUnavailable", val |-> JsNull, failed |-> call]
Done(op, args, res) ==
    [pc |-> "done", op |-> op, args |-> args, st |-> res.st, val |-> res.val,
     failed |-> res.failed]

\* ---------------------------------------------------- the legacy writer
\* The earlier release of saveAnnotation wrote the flat layout, with the raw
\* identifiers in the name.

LegacyWrites(a) ==
    LET name    == LegacyPath(UserIdOf(a), SampleIdOf(a))
        content == JsonStringify(a)
    IN  {<<name, bytes>> : bytes \in UploadOutcomes(content, StringLength(content))}

\* The annotations the earlier release stored: those with identifiers that are
\* not blank.
LegacyAnnotations ==
    {a \in Annotations : sanitizePath(SampleIdOf(a)).ok /\ sanitizePath(UserIdOf(a)).ok}

\* The containers the service may start on: the sample data, and fewer than
\* MaxBlobs legacy annotations under distinct names.
InitialContainers ==
    LET data   == [n \in {DataPath(T.d)} |-> Utf8Encode(T.hi)]
        writes == UNION {LegacyWrites(a) : a \in LegacyAnnotations}
        picks  == {w \in SUBSET writes :
                     /\ Cardinality(w) < MaxBlobs
                     /\ \A x, y \in w : x[1] = y[1] => x = y}
    IN  {[n \in DOMAIN data \cup {w[1] : w \in pk} |->
            IF n \in DOMAIN data THEN data[n] ELSE (CHOOSE w \in pk : w[1] = n)[2]] : pk \in picks}

Init ==
    /\ config = "null"
    /\ containerClient = "null"
    /\ blobs \in InitialContainers
    /\ procs = [p \in Procs |-> Idle]
    /\ lastSaved = [pair \in SampleIds \X UserIds |-> NoAnnotation]

\* ------------------------------------------------------------ operations

\* p's operation goes on to its next await.
Goto(p, rec) == procs' = [procs EXCEPT ![p] = rec]

\* p's operation completes with outcome res.
Complete(p, op, args, res) == procs' = [procs EXCEPT ![p] = Done(op, args, res)]

\* The caller takes the outcome and is free for its next call.
return(p) ==
    /\ procs[p].pc = "done"
    /\ procs' = [procs EXCEPT ![p] = Idle]
    /\ UNCHANGED <<config, containerClient, blobs, lastSaved>>

\* initialize(config).  how: the connection string is missing, the container
\* check fails, or both succeed.
InitOutcomes == {"noConnectionString", "checkFails", "ok"}
initialize(p, how) ==
    /\ procs[p].pc = "idle"
    /\ config' = "loaded"
    /\ containerClient' = IF how = "noConnectionString" THEN containerClient ELSE "client"
    /\ Complete(p, "initialize", <<>>,
                IF how = "ok" THEN Ok(JsNull) ELSE Err("InitializationFailed"))
    /\ UNCHANGED <<blobs, lastSaved>>

\* saveAnnotation(annotation) up to the upload it awaits.
saveAnnotation(p, annotation) ==
    LET sanitizedUserId   == sanitizePath(UserIdOf(annotation))
        sanitizedSampleId == sanitizePath(SampleIdOf(annotation))
        annotationPath    == CurrentPath(sanitizedUserId.val, sanitizedSampleId.val)
        content           == JsonStringify(annotation)
    IN  /\ procs[p].pc = "idle"
        /\ IF ~Initialized
           THEN Complete(p, "saveAnnotation", <<annotation>>, Err("NotInitialized"))
           ELSE IF ~sanitizedUserId.ok \/ ~sanitizedSampleId.ok
           THEN Complete(p, "saveAnnotation", <<annotation>>, Err("InvalidInput"))
           ELSE /\ \/ annotationPath \in DOMAIN blobs
                   \/ Cardinality(AnnotationBlobs(blobs)) < MaxBlobs
                /\ Goto(p, [pc |-> "upload", annotation |-> annotation,
                            path |-> annotationPath, content |-> content,
                            contentLength |-> StringLength(content)])
        /\ UNCHANGED <<config, containerClient, blobs, lastSaved>>

\* A faulty upload, which moves the pair's annotation: it removes the blob of
\* the legacy layout when it writes the one of the current layout.
uploadDoneMoving(p) ==
    LET a      == procs[p].annotation
        legacy == LegacyPath(sanitizePath(UserIdOf(a)).val, sanitizePath(SampleIdOf(a)).val)
    IN  /\ procs[p].pc = "upload"
        /\ \E stored \in UploadOutcomes(procs[p].content, procs[p].contentLength) :
              blobs' = [n \in (DOMAIN blobs \cup {procs[p].path}) \ {legacy} |->
                          IF n = procs[p].path THEN stored ELSE blobs[n]]
        /\ lastSaved' = Put(lastSaved, <<SampleIdOf(a), UserIdOf(a)>>, a)
        /\ Complete(p, "saveAnnotation", <<a>>, Ok(JsNull))
        /\ UNCHANGED <<config, containerClient>>

\* blockBlobClient.upload(content, content.length) takes effect and
\* saveAnnotation returns.
uploadDone(p) ==
    /\ procs[p].pc = "upload"
    /\ \E stored \in UploadOutcomes(procs[p].content, procs[p].contentLength) :
          blobs' = Put(blobs, procs[p].path, stored)
    /\ lastSaved' = Put(lastSaved, <<SampleIdOf(procs[p].annotation),
                                      UserIdOf(procs[p].annotation)>>, procs[p].annotation)
    /\ Complete(p, "saveAnnotation", <<procs[p].annotation>>, Ok(JsNull))
    /\ UNCHANGED <<config, containerClient>>

\* getAnnotation(sampleId, userId) up to the first exists() it awaits.
getAnnotation(p, sampleId, userId) ==
    LET sanitizedUserId   == sanitizePath(userId)
        sanitizedSampleId == sanitizePath(sampleId)
    IN  /\ procs[p].pc = "idle"
        /\ IF ~Initialized
           THEN Complete(p, "getAnnotation", <<sampleId, userId>>, Err("NotInitialized"))
           ELSE IF ~sanitizedUserId.ok \/ ~sanitizedSampleId.ok
           THEN Complete(p, "getAnnotation", <<sampleId, userId>>, Err("InvalidInput"))
           ELSE Goto(p, [pc |-> "exists", sampleId |-> sampleId, userId |-> userId,
                         path |-> CurrentPath(sanitizedUserId.val, sanitizedSampleId.val),
                         legacyPath |-> LegacyPath(sanitizedUserId.val, sanitizedSampleId.val)])
        /\ UNCHANGED <<config, containerClient, blobs, lastSaved>>

\* A faulty lookup, which asks for the legacy blob whatever exists() answers.
getAnnotationExistsSkipped(p) ==
    /\ procs[p].pc = "exists"
    /\ Goto(p, [procs[p] EXCEPT !.pc = "legacyExists"])
    /\ UNCHANGED <<config, containerClient, blobs, lastSaved>>

\* blobClient.exists() answers.
getAnnotationExists(p) ==
    /\ procs[p].pc = "exists"
    /\ Goto(p, [procs[p] EXCEPT !.pc = IF BlobExists(blobs, procs[p].path)
                                       THEN "download" ELSE "legacyExists"])
    /\ UNCHANGED <<config, containerClient, blobs, lastSaved>>

\* A faulty lookup, which fails when it finds no blob at the legacy key and a
\* save has written the current key since it looked there.
getAnnotationLegacyExistsConflicting(p) ==
    /\ procs[p].pc = "legacyExists"
    /\ IF ~BlobExists(blobs, procs[p].legacyPath)
       THEN Complete(p, "getAnnotation", <<procs[p].sampleId, procs[p].userId>>,
                     IF BlobExists(blobs, procs[p].path) THEN Err("Conflict") ELSE Ok(JsNull))
       ELSE Goto(p, [procs[p] EXCEPT !.pc = "downloadLegacy"])
    /\ UNCHANGED <<config, containerClient, blobs, lastSaved>>

\* legacyBlobClient.exists() answers.
getAnnotationLegacyExists(p) ==
    /\ procs[p].pc = "legacyExists"
    /\ IF ~BlobExists(blobs, procs[p].legacyPath)
       THEN Complete(p, "getAnnotation", <<procs[p].sampleId, procs[p].userId>>, Ok(JsNull))
       ELSE Goto(p, [procs[p] EXCEPT !.pc = "downloadLegacy"])
    /\ UNCHANGED <<config, containerClient, blobs, lastSaved>>

\* A faulty download, which answers a blob that does not parse with null.
getAnnotationDownloadSwallowing(p) ==
    /\ procs[p].pc \in {"download", "downloadLegacy"}
    /\ LET name   == IF procs[p].pc = "download" THEN procs[p].path ELSE procs[p].legacyPath
           parsed == DownloadBlobAsJson(blobs, name)
       IN  Complete(p, "getAnnotation", <<procs[p].sampleId, procs[p].userId>>,
                    IF parsed.ok THEN Ok(parsed.val) ELSE Ok(JsNull))
    /\ UNCHANGED <<config, containerClient, blobs, lastSaved>>

\* A faulty download, which removes the blob it has read.
getAnnotationDownloadConsuming(p) ==
    /\ procs[p].pc \in {"download", "downloadLegacy"}
    /\ LET name   == IF procs[p].pc = "download" THEN procs[p].path ELSE procs[p].legacyPath
           parsed == DownloadBlobAsJson(blobs, name)
       IN  /\ Complete(p, "getAnnotation", <<procs[p].sampleId, procs[p].userId>>,
                       IF parsed.ok THEN Ok(parsed.val) ELSE Err("CorruptData"))
           /\ blobs' = [n \in DOMAIN blobs \ {name} |-> blobs[n]]
    /\ UNCHANGED <<config, containerClient, lastSaved>>

\* downloadBlobAsJson of the blob found, and getAnnotation returns or throws.
getAnnotationDownload(p) ==
    /\ procs[p].pc \in {"download", "downloadLegacy"}
    /\ LET name   == IF procs[p].pc = "download" THEN procs[p].path ELSE procs[p].legacyPath
           parsed == DownloadBlobAsJson(blobs, name)
       IN  Complete(p, "getAnnotation", <<procs[p].sampleId, procs[p].userId>>,
                    IF parsed.ok THEN Ok(parsed.val) ELSE Err("CorruptData"))
    /\ UNCHANGED <<config, containerClient, blobs, lastSaved>>

\* The call of the blob client that each await waits for.
Awaited ==
    [upload |-> "upload", exists |-> "exists", legacyExists |-> "exists",
     download |-> "download", downloadLegacy |-> "download"]

\* A faulty handling of a rejected call, which catches what the call threw and
\* returns null.
blobCallFailsSwallowed(p) ==
    /\ procs[p].pc \in DOMAIN Awaited
    /\ Complete(p, IF procs[p].pc = "upload" THEN "saveAnnotation" ELSE "getAnnotation",
                IF procs[p].pc = "upload" THEN <<procs[p].annotation>>
                ELSE <<procs[p].sampleId, procs[p].userId>>,
                [Ok(JsNull) EXCEPT !.failed = Awaited[procs[p].pc]])
    /\ UNCHANGED <<config, containerClient, blobs, lastSaved>>

\* A call to the blob client fails (network, authorization, quota) and the
\* operation that awaits it throws.
blobCallFails(p) ==
    /\ procs[p].pc \in DOMAIN Awaited
    /\ Complete(p, IF procs[p].pc = "upload" THEN "saveAnnotation" ELSE "getAnnotation",
                IF procs[p].pc = "upload" THEN <<procs[p].annotation>>
                ELSE <<procs[p].sampleId, procs[p].userId>>,
                Rejected(Awaited[procs[p].pc]))
    /\ UNCHANGED <<config, containerClient, blobs, lastSaved>>

\* getProjectStats().  fails: the listing fails.
getProjectStats(p, fails) ==
    /\ procs[p].pc = "idle"
    /\ Complete(p, "getProjectStats", <<>>,
                IF config = "null" THEN Err("NotInitialized")
                ELSE IF containerClient # "null" /\ fails THEN Rejected("list")
                ELSE Ok([totalSamples     |-> Len(samples),
                         annotatedSamples |-> IF containerClient # "null"
                                              THEN Cardinality(StatsAnnotatedIds(blobs))
                                              ELSE 0]))
    /\ UNCHANGED <<config, containerClient, blobs, lastSaved>>

\* getAnnotatedSampleIdsForUser(userId).  fails: a listing fails.
getAnnotatedSampleIdsForUser(p, userId, fails) ==
    LET sanitizedUserId == sanitizePath(userId)
    IN  /\ procs[p].pc = "idle"
        /\ Complete(p, "getAnnotatedSampleIdsForUser", <<userId>>,
                    IF ~Initialized THEN Ok({})
                    ELSE IF ~sanitizedUserId.ok THEN Err("InvalidInput")
                    ELSE IF fails THEN Rejected("list")
                    ELSE Ok(UserAnnotatedIds(blobs, sanitizedUserId.val)))
        /\ UNCHANGED <<config, containerClient, blobs, lastSaved>>

\* listAnnotationsForSample(sampleId).  fails: the listing or a download fails.
listAnnotationsForSample(p, sampleId, fails) ==
    LET sanitizedSampleId == sanitizePath(sampleId)
        annotations       == ListForSample(blobs, sanitizedSampleId.val)
    IN  /\ procs[p].pc = "idle"
        /\ Complete(p, "listAnnotationsForSample", <<sampleId>>,
                    IF ~Initialized THEN Err("NotInitialized")
                    ELSE IF ~sanitizedSampleId.ok THEN Err("InvalidInput")
                    ELSE IF fails THEN Rejected("list")
                    ELSE IF ~annotations.ok THEN Err("CorruptData")
                    ELSE Ok(annotations.val))
        /\ UNCHANGED <<config, containerClient, blobs, lastSaved>>

\* getSampleUrl(sample).  fails: exists() fails.
getSampleUrl(p, sample, fails) ==
    LET blobPath == DataPath(sample.fileName)
    IN  /\ procs[p].pc = "idle"
        /\ Complete(p, "getSampleUrl", <<sample>>,
                    IF ~Initialized THEN Err("NotInitialized")
                    ELSE IF StartsWith(sample.fileName, T.http) THEN Ok(sample.fileName)
                    ELSE IF fails THEN Rejected("exists")
                    ELSE IF ~BlobExists(blobs, blobPath) THEN Err("SampleNotFound")
                    ELSE Ok(Concat(<<containerUrl, T.slash, blobPath>>)))
        /\ UNCHANGED <<config, containerClient, blobs, lastSaved>>

\* getSampleData(sample).  fails: download() fails; it also fails, with the
\* service's BlobNotFound, when no blob has the name.
getSampleData(p, sample, fails) ==
    LET blobPath == DataPath(sample.fileName)
    IN  /\ procs[p].pc = "idle"
        /\ Complete(p, "getSampleData", <<sample>>,
                    IF ~Initialized THEN Err("NotInitialized")
                    ELSE IF fails THEN Rejected("download")
                    ELSE IF ~BlobExists(blobs, blobPath)
                    THEN [Err("BlobNotFound") EXCEPT !.failed = "download"]
                    ELSE Ok(blobs[blobPath]))
        /\ UNCHANGED <<config, containerClient, blobs, lastSaved>>

\* ------------------------------------------------------- specifications

\* One caller at a time: every operation runs to its end before the next starts.
Next ==
    \/ \E how \in InitOutcomes : initialize(1, how)
    \/ \E a \in Annotations : saveAnnotation(1, a)
    \/ uploadDone(1)
    \/ \E s \in SampleIds, u \in UserIds : getAnnotation(1, s, u)
    \/ getAnnotationExists(1)
    \/ getAnnotationLegacyExists(1)
    \/ getAnnotationDownload(1)
    \/ blobCallFails(1)
    \/ \E f \in BOOLEAN : getProjectStats(1, f)
    \/ \E u \in UserIds, f \in BOOLEAN : getAnnotatedSampleIdsForUser(1, u, f)
    \/ \E s \in SampleIds, f \in BOOLEAN : listAnnotationsForSample(1, s, f)
    \/ \E sample \in SampleInfos, f \in BOOLEAN : getSampleUrl(1, sample, f)
    \/ \E sample \in SampleInfos, f \in BOOLEAN : getSampleData(1, sample, f)
    \/ return(1)

Spec == Init /\ [][Next]_vars

\* Two callers at once on one pair of identifiers, in a service that has been
\* initialized: the awaits of their operations interleave.
ConcAnnotations == {Annotation(pl[1], T.s, T.u, pl[2]) : pl \in Payloads}

ConcInit ==
    /\ config = "loaded"
    /\ containerClient = "client"
    /\ blobs \in InitialContainers
    /\ procs = [p \in Procs |-> Idle]
    /\ lastSaved = [pair \in SampleIds \X UserIds |-> NoAnnotation]

ConcNext ==
    \E p \in Procs :
        \/ \E a \in ConcAnnotations : saveAnnotation(p, a)
        \/ uploadDone(p)
        \/ getAnnotation(p, T.s, T.u)
        \/ getAnnotationExists(p)
        \/ getAnnotationLegacyExists(p)
        \/ getAnnotationDownload(p)
        \/ blobCallFails(p)
        \/ return(p)

ConcSpec == ConcInit /\ [][ConcNext]_vars

\* ------------------------------------------------------------ HTTP routes
\* The routes that call the service, on the branch they take when the
\* connection string is configured.

\* The route that awaits each operation.
RouteOf ==
    [saveAnnotation           |-> "POST /annotations",
     getAnnotation            |-> "GET /annotations/:sampleId",
     getSampleUrl             |-> "GET /samples/:id/data",
     getProjectStats          |-> "GET /stats",
     listAnnotationsForSample |-> "GET /annotations/:sampleId/all"]

\* The message of the route's catch.
ErrorOf ==
    [saveAnnotation           |-> "Failed to save annotation",
     getAnnotation            |-> "Failed to get annotation",
     getSampleUrl             |-> "Failed to get sample data",
     getProjectStats          |-> "Failed to get statistics",
     listAnnotationsForSample |-> "Failed to list annotations"]

\* configService.getSampleById(id): the first sample of the configuration with
\* the id, if there is one.
getSampleById(id) ==
    {samples[i] : i \in {j \in 1..Len(samples) :
                            samples[j].id = id /\ \A k \in 1..(j - 1) : samples[k].id # id}}

\* The members the listing route copies out of an annotation.
ListedKeys == {T.id, T.userId, T.userName}
IsListedMember(m) == m[1] \in ListedKeys
Listed(a) == IF a.t = "obj" THEN JsObj(SelectSeq(a.m, IsListedMember)) ELSE a

\* What the route sends after the operation it awaited ended as rec says:
\* res.json(...) after the await, res.status(500) in the catch.  The inner
\* catch of POST /annotations answers as the try does, but for syncedToAzure.
Response(rec) ==
    IF rec.op = "saveAnnotation"
    THEN [status |-> 200,
          body   |-> [success |-> TRUE, annotation |-> rec.args[1],
                      syncedToAzure |-> rec.st = "ok"]]
    ELSE IF rec.st # "ok"
    THEN [status |-> 500, body |-> [error |-> ErrorOf[rec.op]]]
    ELSE [status |-> 200,
          body   |-> IF rec.op = "getSampleUrl" THEN [url |-> rec.val]
                     ELSE IF rec.op = "listAnnotationsForSample"
                     THEN [sampleId         |-> rec.args[1],
                           totalAnnotations |-> Len(rec.val),
                           annotations      |-> [i \in 1..Len(rec.val) |-> Listed(rec.val[i])]]
                     ELSE rec.val]

\* The route has answered the request.
Responded(route, args, st, res) ==
    [pc |-> "responded", route |-> route, args |-> args, st |-> st,
     status |-> res.status, body |-> res.body]

\* GET /samples/:id/data: 404 for an id the configuration does not have, else
\* the URL getSampleUrl gives.
samplesIdData(p, id, fails) ==
    IF getSampleById(id) = {}
    THEN /\ procs[p].pc = "idle"
         /\ Goto(p, Responded(RouteOf.getSampleUrl, <<id>>, "none",
                              [status |-> 404, body |-> [error |-> "Sample not found"]]))
         /\ UNCHANGED <<config, containerClient, blobs, lastSaved>>
    ELSE \E sample \in getSampleById(id) : getSampleUrl(p, sample, fails)

\* The await of the route resumes, in its try or in its catch, and the route
\* answers.
respond(p) ==
    /\ procs[p].pc = "done"
    /\ procs[p].op \in DOMAIN RouteOf
    /\ Goto(p, Responded(RouteOf[procs[p].op], procs[p].args, procs[p].st, Response(procs[p])))
    /\ UNCHANGED <<config, containerClient, blobs, lastSaved>>

\* The annotations POST /annotations carries: those of Annotations, and for
\* one user an annotation of the configured sample whose id has a dot and one
\* of a sample the configuration does not have.
HttpAnnotations ==
    Annotations \cup {Annotation(T.a, id, T.u, T.n) : id \in {T.s_dot_t, T.x}}

\* The routes of the progress of a user.
FilteredRoute == "GET /samples/filtered"
ResumeRoute == "GET /resume-position"

\* config.samples.filter(s => !annotatedSampleIds.has(s.id))
Unannotated(annotatedSampleIds) ==
    LET NotIn(sample) == sample.id \notin annotatedSampleIds
    IN  SelectSeq(samples, NotIn)

\* What GET /samples/filtered sends after getAnnotatedSampleIdsForUser ended
\* as rec says.
FilteredResponse(rec) ==
    IF rec.st # "ok"
    THEN [status |-> 500, body |-> [error |-> "Failed to get filtered samples"]]
    ELSE [status |-> 200,
          body   |-> [samples          |-> Unannotated(rec.val),
                      totalSamples     |-> Len(samples),
                      remainingSamples |-> Len(Unannotated(rec.val)),
                      annotatedCount   |-> Cardinality(rec.val)]]

\* The index, from 0, at which GET /resume-position starts its search:
\* after currentSampleId when the parameter is given and names a sample.
\* A parameter that is absent is the empty string here (both are falsy).
StartIndex(currentSampleId) ==
    LET found == {i \in 1..Len(samples) : samples[i].id = currentSampleId}
    IN  IF currentSampleId # <<>> /\ found # {}
        THEN CHOOSE i \in found : \A j \in found : i <= j
        ELSE 0

\* What GET /resume-position sends after getAnnotatedSampleIdsForUser ended
\* as rec says.
ResumeResponse(rec, currentSampleId) ==
    LET open == {i \in StartIndex(currentSampleId)..(Len(samples) - 1) :
                    samples[i + 1].id \notin rec.val}
        next == CHOOSE i \in open : \A j \in open : i <= j
    IN  IF rec.st # "ok"
        THEN [status |-> 500, body |-> [error |-> "Failed to get resume position"]]
        ELSE [status |-> 200,
              body   |-> [annotatedCount  |-> Cardinality(rec.val),
                          totalSamples    |-> Len(samples),
                          nextSampleId    |-> IF open = {} THEN JsNull
                                              ELSE JsStr(samples[next + 1].id),
                          nextSampleIndex |-> IF open = {} THEN 0 ELSE next,
                          supportsResume  |-> TRUE,
                          allCompleted    |-> Cardinality(rec.val) = Len(samples) /\ open = {}]]

\* GET /samples/filtered up to its await: without
\* sampleControl.filterAnnotatedSamples it sends every sample, else it calls
\* getAnnotatedSampleIdsForUser.
samplesFiltered(p, userId, fails, filterAnnotatedSamples) ==
    IF ~filterAnnotatedSamples
    THEN /\ procs[p].pc = "idle"
         /\ Goto(p, Responded(FilteredRoute, <<userId>>, "none",
                              [status |-> 200,
                               body   |-> [samples          |-> samples,
                                           totalSamples     |-> Len(samples),
                                           remainingSamples |-> Len(samples)]]))
         /\ UNCHANGED <<config, containerClient, blobs, lastSaved>>
    ELSE getAnnotatedSampleIdsForUser(p, userId, fails)

\* GET /resume-position up to its await.
resumePosition(p, userId, fails) ==
    getAnnotatedSampleIdsForUser(p, userId, fails)

\* The two routes await the same call, and its record does not say which of
\* them made it: either answers.
respondFiltered(p) ==
    /\ procs[p].pc = "done"
    /\ procs[p].op = "getAnnotatedSampleIdsForUser"
    /\ Goto(p, Responded(FilteredRoute, procs[p].args, procs[p].st, FilteredResponse(procs[p])))
    /\ UNCHANGED <<config, containerClient, blobs, lastSaved>>

respondResume(p, currentSampleId) ==
    /\ procs[p].pc = "done"
    /\ procs[p].op = "getAnnotatedSampleIdsForUser"
    /\ Goto(p, Responded(ResumeRoute, procs[p].args \o <<currentSampleId>>, procs[p].st,
                         ResumeResponse(procs[p], currentSampleId)))
    /\ UNCHANGED <<config, containerClient, blobs, lastSaved>>

\* The values of the query parameter currentSampleId: absent, the configured
\* ids, and an id the configuration does not have.
CurrentSampleIds == {<<>>, T.s, T.s_dot_t, T.x}

\* The request is over and the server takes the next one.
requestEnds(p) ==
    /\ procs[p].pc = "responded"
    /\ Goto(p, Idle)
    /\ UNCHANGED <<config, containerClient, blobs, lastSaved>>

\* initialize, which the server calls as it starts, returns.
startupReturns(p) ==
    /\ procs[p].pc = "done"
    /\ procs[p].op = "initialize"
    /\ return(p)

\* One request at a time.
HttpNext ==
    \/ \E how \in InitOutcomes : initialize(1, how)
    \/ startupReturns(1)
    \/ \E a \in HttpAnnotations : saveAnnotation(1, a)
    \/ uploadDone(1)
    \/ \E s \in SampleIds, u \in UserIds : getAnnotation(1, s, u)
    \/ getAnnotationExists(1)
    \/ getAnnotationLegacyExists(1)
    \/ getAnnotationDownload(1)
    \/ blobCallFails(1)
    \/ \E f \in BOOLEAN : getProjectStats(1, f)
    \/ \E s \in SampleIds, f \in BOOLEAN : listAnnotationsForSample(1, s, f)
    \/ \E id \in SampleIds \cup {T.s_dot_t}, f \in BOOLEAN : samplesIdData(1, id, f)
    \/ \E u \in UserIds, f, filter \in BOOLEAN : samplesFiltered(1, u, f, filter)
    \/ \E u \in UserIds, f \in BOOLEAN : resumePosition(1, u, f)
    \/ respond(1)
    \/ respondFiltered(1)
    \/ \E cur \in CurrentSampleIds : respondResume(1, cur)
    \/ requestEnds(1)

HttpSpec == Init /\ [][HttpNext]_vars

\* ------------------------------------------------------- repeated reads
\* One caller works as in Spec; whenever it holds the outcome of a read, a
\* second caller may repeat that read, with the same arguments, before the
\* first goes on.

ReadOps ==
    {"getAnnotation", "listAnnotationsForSample", "getAnnotatedSampleIdsForUser",
     "getProjectStats", "getSampleUrl", "getSampleData"}

\* Caller q calls the read whose outcome caller p holds.
readAgain(q, p) ==
    /\ procs[p].pc = "done"
    /\ procs[p].op \in ReadOps
    /\ \/ procs[p].op = "getAnnotation"
          /\ getAnnotation(q, procs[p].args[1], procs[p].args[2])
       \/ procs[p].op = "listAnnotationsForSample"
          /\ \E f \in BOOLEAN : listAnnotationsForSample(q, procs[p].args[1], f)
       \/ procs[p].op = "getAnnotatedSampleIdsForUser"
          /\ \E f \in BOOLEAN : getAnnotatedSampleIdsForUser(q, procs[p].args[1], f)
       \/ procs[p].op = "getProjectStats"
          /\ \E f \in BOOLEAN : getProjectStats(q, f)
       \/ procs[p].op = "getSampleUrl"
          /\ \E f \in BOOLEAN : getSampleUrl(q, procs[p].args[1], f)
       \/ procs[p].op = "getSampleData"
          /\ \E f \in BOOLEAN : getSampleData(q, procs[p].args[1], f)

ReadNext ==
    \/ procs[2].pc = "idle" /\ Next
    \/ readAgain(2, 1)
    \/ getAnnotationExists(2)
    \/ getAnnotationLegacyExists(2)
    \/ getAnnotationDownload(2)
    \/ blobCallFails(2)
    \/ return(2)

ReadSpec == Init /\ [][ReadNext]_vars

\* ------------------------------------------------------- sanitizePath alone
\* sanitizePath applied to hostile identifiers, on its own and in the key
\* saveAnnotation writes.

\* The identifiers tried are at most MaxLen code units long, plus the examples.
MaxLen == 3

\* Percent, the digits and letters of the escapes of space, '/', '%' and NUL,
\* the separators, the dot, NUL, a space and a plain letter.
SanAlphabet == {T.sanAlphabet[i] : i \in 1..Len(T.sanAlphabet)} \cup {0}

SanExamples ==
    {T.encodedSlash, T.twiceEncodedSlash, T.encodedTraversal, T.encodedAccent, T.traversal}

SanInputs == UNION {[1..n -> SanAlphabet] : n \in 0..MaxLen} \cup SanExamples

\* The service is initialized on a container without annotations, and the
\* caller holds the identifier it is about to pass.
SanInit ==
    /\ config = "loaded"
    /\ containerClient = "client"
    /\ blobs \in {b \in InitialContainers : AnnotationBlobs(b) = {}}
    /\ \E x \in SanInputs : procs = [p \in Procs |-> [pc |-> "idle", input |-> x]]
    /\ lastSaved = [pair \in SampleIds \X UserIds |-> NoAnnotation]

HoldsInput(p) == procs[p].pc = "idle" /\ "input" \in DOMAIN procs[p]

\* The outcome of sanitizePath as the outcome of an operation: the throw is
\* the InvalidInput of the operations that call it.
Sanitized(input) ==
    LET r == sanitizePath(input) IN IF r.ok THEN Ok(r.val) ELSE Err("InvalidInput")

\* sanitizePath(input)
sanitizeInput(p) ==
    /\ HoldsInput(p)
    /\ Complete(p, "sanitizePath", <<procs[p].input>>, Sanitized(procs[p].input))
    /\ UNCHANGED <<config, containerClient, blobs, lastSaved>>

\* sanitizePath of what sanitizePath returned.
sanitizeAgain(p) ==
    /\ procs[p].pc = "done"
    /\ procs[p].op = "sanitizePath"
    /\ Len(procs[p].args) = 1
    /\ procs[p].st = "ok"
    /\ Complete(p, "sanitizePath", <<procs[p].args[1], procs[p].val>>, Sanitized(procs[p].val))
    /\ UNCHANGED <<config, containerClient, blobs, lastSaved>>

\* saveAnnotation of an annotation whose sampleId, userId or both are the
\* identifier.
saveInput(p) ==
    /\ HoldsInput(p)
    /\ \E ids \in {<<procs[p].input, T.u>>, <<T.s, procs[p].input>>,
                   <<procs[p].input, procs[p].input>>} :
          saveAnnotation(p, Annotation(T.a, ids[1], ids[2], T.n))

SanNext ==
    \/ sanitizeInput(1)
    \/ sanitizeAgain(1)
    \/ saveInput(1)
    \/ uploadDone(1)
    \/ blobCallFails(1)

SanitizeSpec == SanInit /\ [][SanNext]_vars

\* ------------------------------------------------------- pairs that meet
\* Saves and lookups, one at a time, for pairs of identifiers that differ
\* only in what sanitizePath replaces or in where the underscore of the
\* legacy name falls.

PairSampleIds == {T.s, T.s_t, T.s_dot_t}
PairUserIds == {T.u, T.t_u}
PairAnnotations == {Annotation(T.a, s, u, T.n) : s \in PairSampleIds, u \in PairUserIds}

PairNext ==
    \/ \E a \in PairAnnotations : saveAnnotation(1, a)
    \/ uploadDone(1)
    \/ \E s \in PairSampleIds, u \in PairUserIds : getAnnotation(1, s, u)
    \/ getAnnotationExists(1)
    \/ getAnnotationLegacyExists(1)
    \/ getAnnotationDownload(1)
    \/ blobCallFails(1)
    \/ return(1)

PairSpec == ConcInit /\ [][PairNext]_vars

\* ----------------------------------------------------------------- claims

\* The identifier is neither empty nor made of whitespace only.
ValidId(s) == s # <<>> /\ ~TrimIsEmpty(s)

\* The names the contract gives the blob of a pair:
\* {annotationsPath}/{userId}/{sampleId}.json in the current layout,
\* {annotationsPath}/{sampleId}_{userId}.json in the legacy one.
CurrentKey(sampleId, userId) ==
    Concat(<<annotationsPath, T.slash, sanitizePath(userId).val, T.slash,
             sanitizePath(sampleId).val, T.dotJson>>)
LegacyKey(sampleId, userId) ==
    Concat(<<annotationsPath, T.slash, sanitizePath(sampleId).val, T.underscore,
             sanitizePath(userId).val, T.dotJson>>)

\* Caller p holds the outcome of operation op, other than a failed blob call.
Returned(p, op) ==
    procs[p].pc = "done" /\ procs[p].op = op /\ procs[p].st # "StorageUnavailable"

\* Caller p holds the outcome of a getAnnotation that passed the gate and the
\* validation of its identifiers.
Looked(p) ==
    /\ Returned(p, "getAnnotation")
    /\ Initialized
    /\ ValidId(procs[p].args[1]) /\ ValidId(procs[p].args[2])

\* The <<sampleId, userId>> caller p asked for.
Asked(p) == <<procs[p].args[1], procs[p].args[2]>>

\* The bytes of name are the JSON text of value v.
Holds(name, v) == name \in DOMAIN blobs /\ blobs[name] = Utf8Encode(JsonStringify(v))

\* The bytes of name parse as JSON.
ValidJsonAt(name) == JsonParse(Utf8Decode(blobs[name])).ok

\* C1: in an initialized store, a getAnnotation(a.sampleId, a.userId) that runs
\* after saveAnnotation(a) completed, with no other save for the pair in
\* between, returns a value equal to a.
C1_RoundTrip ==
    \A p \in Procs :
        Returned(p, "getAnnotation") /\ lastSaved[Asked(p)] # NoAnnotation
            => procs[p].st = "ok" /\ procs[p].val = lastSaved[Asked(p)]

\* C2: getAnnotation answers with the object at the current-layout key when
\* one exists, otherwise with the object at the legacy key when one exists,
\* and with null, a normal result, when neither exists.  (An object that does
\* not parse is the case of C8.)
C2_TwoStepLookup ==
    \A p \in Procs :
        Looked(p) =>
            LET cur == CurrentKey(Asked(p)[1], Asked(p)[2])
                leg == LegacyKey(Asked(p)[1], Asked(p)[2])
            IN  /\ cur \in DOMAIN blobs /\ ValidJsonAt(cur)
                    => procs[p].st = "ok" /\ Holds(cur, procs[p].val)
                /\ cur \notin DOMAIN blobs /\ leg \in DOMAIN blobs /\ ValidJsonAt(leg)
                    => procs[p].st = "ok" /\ Holds(leg, procs[p].val)
                /\ cur \notin DOMAIN blobs /\ leg \notin DOMAIN blobs
                    => procs[p].st = "ok" /\ procs[p].val = JsNull

\* A getAnnotation answered with the legacy object, none being at the current key.
C2_Witness ==
    \E p \in Procs :
        /\ Looked(p)
        /\ CurrentKey(Asked(p)[1], Asked(p)[2]) \notin DOMAIN blobs
        /\ LegacyKey(Asked(p)[1], Asked(p)[2]) \in DOMAIN blobs
        /\ procs[p].st = "ok" /\ procs[p].val # JsNull

\* C3: when a legacy-layout annotation exists for (sampleId, userId) and
\* saveAnnotation is then called with the same identifiers, every later
\* getAnnotation(sampleId, userId) returns the newly saved value.
C3_CurrentTakesPrecedence ==
    \A p \in Procs :
        /\ Returned(p, "getAnnotation")
        /\ lastSaved[Asked(p)] # NoAnnotation
        /\ LegacyKey(Asked(p)[1], Asked(p)[2]) \in DOMAIN blobs
        => procs[p].st = "ok" /\ procs[p].val = lastSaved[Asked(p)]

C5_LastWriteWins ==
    \A pair \in SampleIds \X UserIds :
        lastSaved[pair] # NoAnnotation
            => Holds(CurrentKey(pair[1], pair[2]), lastSaved[pair])

\* The annotation a call to saveAnnotation by the caller with record rec is for.
IsSave(rec) == rec.pc = "upload" \/ (rec.pc = "done" /\ rec.op = "saveAnnotation")
SaveOf(rec) == IF rec.pc = "upload" THEN rec.annotation ELSE rec.args[1]

\* C6: saveAnnotation with a userId or sampleId that is empty or whitespace
\* only fails at the call, before any upload, and leaves the container as it
\* is; in an initialized store the failure is InvalidInput (before initialize
\* the gate of C7 answers first).
C6_EmptyInputRejected ==
    [][\A p \in Procs :
          /\ procs[p].pc = "idle"
          /\ IsSave(procs'[p])
          /\ ~ValidId(SampleIdOf(SaveOf(procs'[p]))) \/ ~ValidId(UserIdOf(SaveOf(procs'[p])))
          => /\ procs'[p].pc = "done"
             /\ procs'[p].st # "ok"
             /\ Initialized => procs'[p].st = "InvalidInput"
             /\ blobs' = blobs
      ]_vars

\* In an initialized store, a save with a sampleId of whitespace was rejected.
C6_Witness ==
    \E p \in Procs :
        /\ Initialized
        /\ Returned(p, "saveAnnotation") /\ procs[p].st = "InvalidInput"
        /\ SampleIdOf(procs[p].args[1]) = T.blank
        /\ ValidId(UserIdOf(procs[p].args[1]))

C8_CorruptIsAnError ==
    \A p \in Procs :
        Looked(p) =>
            LET cur   == CurrentKey(Asked(p)[1], Asked(p)[2])
                leg   == LegacyKey(Asked(p)[1], Asked(p)[2])
                found == IF cur \in DOMAIN blobs THEN cur ELSE leg
            IN  found \in DOMAIN blobs /\ ~ValidJsonAt(found)
                    => procs[p].st = "CorruptData"

\* getAnnotation failed with CorruptData on the object at the current key
\* while the legacy object of the pair is valid.
C8_Witness ==
    \E p \in Procs :
        /\ Looked(p) /\ procs[p].st = "CorruptData"
        /\ LET cur == CurrentKey(Asked(p)[1], Asked(p)[2])
               leg == LegacyKey(Asked(p)[1], Asked(p)[2])
           IN  /\ cur \in DOMAIN blobs /\ ~ValidJsonAt(cur)
               /\ leg \in DOMAIN blobs /\ ValidJsonAt(leg)

\* The sampleIds with an annotation by user u in either layout, and those with
\* an annotation by any user.
AnnotatedBy(u) ==
    {s \in SampleIds :
        /\ ValidId(s)
        /\ CurrentKey(s, u) \in DOMAIN blobs \/ LegacyKey(s, u) \in DOMAIN blobs}
AnnotatedByAnyone == UNION {AnnotatedBy(u) : u \in {v \in UserIds : ValidId(v)}}

\* C9: getProjectStats().annotatedSamples is the number of distinct sampleIds
\* that have an annotation from any user in either layout.
C9_StatsDedup ==
    \A p \in Procs :
        Returned(p, "getProjectStats") /\ Initialized
            => /\ procs[p].st = "ok"
               /\ procs[p].val.annotatedSamples = Cardinality(AnnotatedByAnyone)

\* C10: getAnnotatedSampleIdsForUser(userId) returns exactly the sampleIds for
\* which an annotation by that user exists at the current-layout key or at
\* the legacy-layout key.
C10_ExactlyTheUsersSamples ==
    \A p \in Procs :
        /\ Returned(p, "getAnnotatedSampleIdsForUser")
        /\ Initialized
        /\ ValidId(procs[p].args[1])
        => procs[p].st = "ok" /\ procs[p].val = AnnotatedBy(procs[p].args[1])

\* The text of a legacy name between the annotations prefix and ".json", and
\* the parts its last underscore separates.
LegacyStem(name) == SubSeq(name, Len(annotationsPath) + 2, Len(name) - Len(T.dotJson))
LastUnderscore(stem) ==
    CHOOSE k \in 1..Len(stem) :
        stem[k] = C.underscore /\ \A j \in (k + 1)..Len(stem) : stem[j] # C.underscore
BeforeLastUnderscore(stem) == SubSeq(stem, 1, LastUnderscore(stem) - 1)
AfterLastUnderscore(stem) == SubSeq(stem, LastUnderscore(stem) + 1, Len(stem))

\* The single-segment names under the annotations prefix that end with .json
\* and hold an underscore.
LegacyKeys ==
    {n \in AnnotationBlobs(blobs) :
        /\ EndsWith(n, T.dotJson)
        /\ \A i \in (Len(annotationsPath) + 2)..Len(n) : n[i] # C.slash
        /\ \E i \in 1..Len(LegacyStem(n)) : LegacyStem(n)[i] = C.underscore}

\* The sampleIds of the names {annotationsPath}/{u}/{sampleId}.json in the container.
DirectoryIds(u) ==
    LET userPrefix == Concat(<<annotationsPath, T.slash, u, T.slash>>)
    IN  {SubSeq(n, Len(userPrefix) + 1, Len(n) - Len(T.dotJson)) :
            n \in {m \in DOMAIN blobs : StartsWith(m, userPrefix) /\ EndsWith(m, T.dotJson)}}

\* C11: getAnnotatedSampleIdsForUser attributes a single-segment legacy key to
\* the sampleId before its last underscore and to the userId after it: the
\* result holds the text before the last underscore of every legacy key whose
\* text after it is the userId, and nothing else from the legacy keys.
C11_SplitOnLastUnderscore ==
    \A p \in Procs :
        /\ Returned(p, "getAnnotatedSampleIdsForUser")
        /\ Initialized
        /\ ValidId(procs[p].args[1])
        => LET u == sanitizePath(procs[p].args[1]).val
           IN  /\ procs[p].st = "ok"
               /\ procs[p].val = DirectoryIds(u) \cup
                      {BeforeLastUnderscore(LegacyStem(n)) :
                          n \in {k \in LegacyKeys : AfterLastUnderscore(LegacyStem(k)) = u}}

\* getAnnotatedSampleIdsForUser("u") returned s_t for the legacy key s_t_u.json,
\* the user's directory holding no annotation of s_t.
C11_Witness ==
    \E p \in Procs :
        /\ Returned(p, "getAnnotatedSampleIdsForUser") /\ Initialized
        /\ procs[p].args[1] = T.u /\ procs[p].st = "ok"
        /\ LegacyKey(T.s_t, T.u) \in DOMAIN blobs
        /\ CurrentKey(T.s_t, T.u) \notin DOMAIN blobs
        /\ T.s_t \in procs[p].val

Segments(name) == Split(SubSeq(name, Len(annotationsPath) + 2, Len(name)), C.slash)

\* The classification of the contract: a current-layout match has exactly two
\* segments, the second being {sampleId}.json; a legacy match is a single
\* segment that starts with {sampleId}_ and ends with .json.
MatchesCurrent(name, sid) ==
    Len(Segments(name)) = 2 /\ Segments(name)[2] = sid \o T.dotJson
MatchesLegacy(name, sid) ==
    /\ Len(Segments(name)) = 1
    /\ StartsWith(Segments(name)[1], sid \o T.underscore)
    /\ EndsWith(Segments(name)[1], T.dotJson)

\* The listing of the names under the annotations prefix that match sid.
MatchingNames(sid) ==
    SelectSeq(SortNames(AnnotationBlobs(blobs)),
              LAMBDA n : MatchesCurrent(n, sid) \/ MatchesLegacy(n, sid))

\* C13: listAnnotationsForSample(sampleId) fetches the keys that match in the
\* current layout (exactly two segments, the second {sanitizedSampleId}.json)
\* or in the legacy layout (a single segment that starts with
\* {sanitizedSampleId}_ and ends with .json), and ignores every other key.
C13_Classification ==
    \A p \in Procs :
        /\ Returned(p, "listAnnotationsForSample")
        /\ Initialized
        /\ ValidId(procs[p].args[1])
        => LET expected == FetchAll(blobs, MatchingNames(sanitizePath(procs[p].args[1]).val))
           IN  IF expected.ok
               THEN procs[p].st = "ok" /\ procs[p].val = expected.val
               ELSE procs[p].st = "CorruptData"

\* The keys, in either layout, of the annotations of sample sid by the users.
KeysOfSample(sid) ==
    {k \in DOMAIN blobs :
        \E u \in UserIds : ValidId(u) /\ k \in {CurrentKey(sid, u), LegacyKey(sid, u)}}

\* C14: listAnnotationsForSample(sampleId) returns the annotations of that
\* sample and only of that sample: no annotation in the result belongs to
\* another sample, and the annotation stored for the sample under any user's
\* key, in either layout, is in the result.
C14_OnlyThatSample ==
    \A p \in Procs :
        /\ Returned(p, "listAnnotationsForSample")
        /\ Initialized
        /\ ValidId(procs[p].args[1])
        /\ procs[p].st = "ok"
        => /\ \A i \in 1..Len(procs[p].val) : SampleIdOf(procs[p].val[i]) = procs[p].args[1]
           /\ \A k \in KeysOfSample(procs[p].args[1]) :
                 \E i \in 1..Len(procs[p].val) : Holds(k, procs[p].val[i])

\* C15: in listAnnotationsForSample a decoding failure for one matching key
\* does not abort the listing: the call returns, with the annotations of the
\* matching keys that do parse.
C15_DecodingFailureSkipped ==
    \A p \in Procs :
        /\ Returned(p, "listAnnotationsForSample")
        /\ Initialized
        /\ ValidId(procs[p].args[1])
        => /\ procs[p].st = "ok"
           /\ \A k \in KeysOfSample(procs[p].args[1]) :
                 ValidJsonAt(k) => \E i \in 1..Len(procs[p].val) : Holds(k, procs[p].val[i])

\* ------------------------------------------------------------------- C16

\* The status the contract gives each kind of failure.
ClaimedStatus ==
    [SampleNotFound |-> 404, InvalidInput |-> 400, NotInitialized |-> 500,
     StorageUnavailable |-> 500, CorruptData |-> 500]

\* C16: a route answers a failure of the operation it awaited with the status
\* of the failure's kind: 404 for SampleNotFound, 400 for InvalidInput, 500 for
\* NotInitialized, StorageUnavailable and CorruptData; and POST /annotations
\* does not answer a failed saveAnnotation with a success response.
C16_StatusMapping ==
    \A p \in Procs :
        (procs[p].pc = "responded" /\ procs[p].st \in DOMAIN ClaimedStatus)
        => /\ procs[p].status = ClaimedStatus[procs[p].st]
           /\ procs[p].route = RouteOf.saveAnnotation
              => ~("success" \in DOMAIN procs[p].body /\ procs[p].body.success)

\* ------------------------------------------------------------------- C17

\* C17: an operation one of whose calls of the blob client (exists, download,
\* upload, list) was rejected fails to its caller: it ends with an error and
\* without a value, in the step of the rejection, so without a second attempt.
C17_ErrorsPropagate ==
    \A p \in Procs :
        (procs[p].pc = "done" /\ procs[p].failed # "none")
        => /\ procs[p].st \notin {"ok"}
           /\ procs[p].val = JsNull

\* A getAnnotation that found the blob has failed because the download was
\* rejected.
C17_Witness ==
    \E p \in Procs :
        /\ procs[p].pc = "done"
        /\ procs[p].op = "getAnnotation"
        /\ procs[p].failed = "download"
        /\ \/ CurrentKey(procs[p].args[1], procs[p].args[2]) \in DOMAIN blobs
           \/ LegacyKey(procs[p].args[1], procs[p].args[2]) \in DOMAIN blobs

\* ------------------------------------------------------------------- C18

\* C18: sanitize is idempotent: for every input sanitize accepts, sanitize of
\* its result returns that result.
C18_Idempotent ==
    \A p \in Procs :
        (procs[p].pc = "done" /\ procs[p].op = "sanitizePath" /\ Len(procs[p].args) = 2)
        => /\ procs[p].st = "ok"
           /\ procs[p].val = procs[p].args[2]

\* ------------------------------------------------------------------- C19

\* The string has none of '/', '\', '.', '%' and NUL.
Safe(s) == \A i \in 1..Len(s) : s[i] \notin {C.slash, C.backslash, C.dot, C.percent, 0}

\* The name lies directly under {annotationsPath}/ with exactly two segments,
\* a directory and a file {stem}.json, both without a character of a path.
TwoSafeSegments(name) ==
    /\ StartsWith(name, annotationsPath \o T.slash)
    /\ Len(Segments(name)) = 2
    /\ Safe(Segments(name)[1])
    /\ EndsWith(Segments(name)[2], T.dotJson)
    /\ Safe(SubSeq(Segments(name)[2], 1, Len(Segments(name)[2]) - Len(T.dotJson)))

\* C19: what sanitize returns has none of '/', '\', '.', '%' and NUL, and every
\* key saveAnnotation uploads to or has written has exactly two segments under
\* {annotationsPath}/, whatever identifiers the caller passes.
C19_NoTraversal ==
    \A p \in Procs :
        /\ (procs[p].pc = "done" /\ procs[p].op = "sanitizePath" /\ procs[p].st = "ok")
           => Safe(procs[p].val)
        /\ procs[p].pc = "upload" => TwoSafeSegments(procs[p].path)
        /\ \A name \in AnnotationBlobs(blobs) : TwoSafeSegments(name)

\* An annotation whose identifiers both hold an encoded or a raw separator
\* has been written.
C19_Witness ==
    \E p \in Procs :
        /\ procs[p].pc = "done"
        /\ procs[p].op = "saveAnnotation"
        /\ procs[p].st = "ok"
        /\ AnnotationBlobs(blobs) # {}
        /\ LET a == procs[p].args[1]
           IN  /\ SampleIdOf(a) = UserIdOf(a)
               /\ \/ SampleIdOf(a) \in {T.encodedSlash, T.traversal, T.encodedTraversal}
                  \/ \E i \in 1..Len(SampleIdOf(a)) : SampleIdOf(a)[i] \in {C.slash, C.backslash}

\* ------------------------------------------------------------------- C20

\* The record is that of a read in progress or of a read that has ended.
IsRead(rec) ==
    \/ rec.pc \in {"exists", "legacyExists", "download", "downloadLegacy"}
    \/ rec.pc = "done" /\ rec.op \in ReadOps

\* A step of a read leaves the stored objects and the configuration as they are.
ReadFrame ==
    (\E p \in Procs : procs'[p] # procs[p] /\ IsRead(procs'[p]))
    => UNCHANGED <<blobs, config, containerClient>>

\* Two callers that hold the outcomes of the same read, none of whose blob
\* calls was rejected, hold the same outcome.
SameOutcome ==
    (/\ procs[1].pc = "done" /\ procs[2].pc = "done"
     /\ procs[1].op \in ReadOps
     /\ procs[2].op = procs[1].op /\ procs[2].args = procs[1].args
     /\ procs[1].failed = "none" /\ procs[2].failed = "none")
    => procs[2] = procs[1]

\* C20: the read operations leave every stored object and the configuration
\* unchanged, and a read repeated with no save in between gives the result it
\* gave.
C20_ReadsArePure == []SameOutcome /\ [][ReadFrame]_vars

\* A getAnnotation that returned a stored annotation has been repeated and
\* has returned it again.
C20_Witness ==
    /\ procs[1].pc = "done" /\ procs[2].pc = "done"
    /\ procs[1].op = "getAnnotation" /\ procs[2].op = "getAnnotation"
    /\ procs[2].args = procs[1].args
    /\ procs[1].st = "ok" /\ procs[1].val # JsNull
    /\ procs[2].val = procs[1].val

\* ------------------------------------------------------------------- C21

\* The file name is an absolute URL of the http or https scheme.
IsAbsoluteUrl(fileName) ==
    StartsWith(fileName, T.httpScheme) \/ StartsWith(fileName, T.httpsScheme)

\* The key the contract gives the data of a sample: {dataPath}/{fileName}.
DataKey(fileName) == Concat(<<dataPath, T.slash, fileName>>)

\* C21: for a fileName that is an absolute http(s) URL getSampleUrl returns it
\* and getSampleData issues no call on a storage key; for any other fileName
\* getSampleUrl answers the URL of the blob {dataPath}/{fileName}, or fails with
\* SampleNotFound when no blob has that key, and getSampleData answers its bytes.
C21_SampleResolution ==
    \A p \in Procs :
        (/\ procs[p].pc = "done"
         /\ procs[p].op \in {"getSampleUrl", "getSampleData"}
         /\ procs[p].st # "StorageUnavailable"
         /\ Initialized)
        => LET fileName == procs[p].args[1].fileName
           IN  IF IsAbsoluteUrl(fileName)
               THEN /\ procs[p].failed = "none"
                    /\ procs[p].op = "getSampleUrl"
                       => procs[p].st = "ok" /\ procs[p].val = fileName
               ELSE IF procs[p].op = "getSampleUrl"
               THEN IF DataKey(fileName) \in DOMAIN blobs
                    THEN /\ procs[p].st = "ok"
                         /\ procs[p].val = Concat(<<containerUrl, T.slash, DataKey(fileName)>>)
                    ELSE procs[p].st = "SampleNotFound"
               ELSE DataKey(fileName) \in DOMAIN blobs
                    => procs[p].st = "ok" /\ procs[p].val = blobs[DataKey(fileName)]

\* ------------------------------------------------------------------- C22

\* User u has a stored annotation of the sample, in either layout.
StoredFor(sampleId, u) ==
    CurrentKey(sampleId, u) \in DOMAIN blobs \/ LegacyKey(sampleId, u) \in DOMAIN blobs

\* The configured samples without a stored annotation by u, in the order of
\* the configuration.
Remaining(u) ==
    LET Open(sample) == ~StoredFor(sample.id, u)
    IN  SelectSeq(samples, Open)

\* Caller p holds the answer of the route to a request of a user with a valid
\* id, made with filtering enabled and the store initialized, no blob call
\* having failed.
Answered(p, route) ==
    /\ procs[p].pc = "responded"
    /\ procs[p].route = route
    /\ procs[p].st \notin {"none", "StorageUnavailable"}
    /\ Initialized
    /\ ValidId(procs[p].args[1])

\* C22: with filtering enabled and storage configured, GET /samples/filtered
\* answers exactly the configured samples the user has no stored annotation
\* of, in configuration order, and remainingSamples is their number.
C22_FilteredExact ==
    \A p \in Procs :
        Answered(p, FilteredRoute)
        => /\ procs[p].status = 200
           /\ procs[p].body.samples = Remaining(procs[p].args[1])
           /\ procs[p].body.remainingSamples = Len(Remaining(procs[p].args[1]))

\* ------------------------------------------------------------------- C23

\* The positions of the configuration the search covers: all of them, or
\* those strictly after the sample the parameter names.
Searched(currentSampleId) ==
    LET named == {i \in 1..Len(samples) : samples[i].id = currentSampleId}
    IN  IF named = {} THEN 1..Len(samples)
        ELSE {j \in 1..Len(samples) : \A i \in named : j > i}

\* The positions searched whose sample the user has not annotated.
OpenIn(currentSampleId, u) ==
    {i \in Searched(currentSampleId) : ~StoredFor(samples[i].id, u)}

\* C23: with storage configured, nextSampleId of GET /resume-position is the
\* first sample, in configuration order and in the range searched, that the
\* user has not annotated, and null only when the range has no such sample.
C23_ResumeFirstOpen ==
    \A p \in Procs :
        Answered(p, ResumeRoute)
        => LET open == OpenIn(procs[p].args[2], procs[p].args[1])
           IN  /\ procs[p].status = 200
               /\ IF open = {} THEN procs[p].body.nextSampleId = JsNull
                  ELSE \E i \in open :
                          /\ \A j \in open : i <= j
                          /\ procs[p].body.nextSampleId = JsStr(samples[i].id)

\* ------------------------------------------------------------------- C28

\* The store holds only what saves of annotations of configured samples wrote.
OnlyConfiguredSaves ==
    AnnotationBlobs(blobs) \subseteq
        {CurrentKey(samples[i].id, u) : i \in 1..Len(samples), u \in {v \in UserIds : ValidId(v)}}

\* C28: in a store that holds only saved annotations of configured samples,
\* annotatedSamples of getProjectStats is at most totalSamples, and GET
\* /samples/filtered answers annotatedCount + remainingSamples = totalSamples.
C28_ProgressWithinTotal ==
    \A p \in Procs :
        OnlyConfiguredSaves
        => /\ (procs[p].pc = "responded" /\ procs[p].route = RouteOf.getProjectStats
               /\ procs[p].st = "ok")
              => procs[p].body.annotatedSamples <= procs[p].body.totalSamples
           /\ Answered(p, FilteredRoute)
              => procs[p].body.annotatedCount + procs[p].body.remainingSamples
                     = procs[p].body.totalSamples

\* ------------------------------------------------------------------- C29

\* C29: when GET /resume-position answers allCompleted = true, every
\* configured sample has a stored annotation by the user, whatever the
\* parameter currentSampleId and the contents of the store.
C29_AllCompletedIsTrue ==
    \A p \in Procs :
        (Answered(p, ResumeRoute) /\ procs[p].status = 200 /\ procs[p].body.allCompleted)
        => \A i \in 1..Len(samples) : StoredFor(samples[i].id, procs[p].args[1])

\* ------------------------------------------------------------------- C24

\* The bytes a lookup of the pair finds in container b: those at the current
\* key, else those at the legacy key, else none.
Found(b, sampleId, userId) ==
    IF CurrentKey(sampleId, userId) \in DOMAIN b THEN b[CurrentKey(sampleId, userId)]
    ELSE IF LegacyKey(sampleId, userId) \in DOMAIN b THEN b[LegacyKey(sampleId, userId)]
    ELSE <<>>

\* An annotation that getAnnotation(s, u) returns is one of sample s by user u.
NoLeak ==
    \A p \in Procs :
        (procs[p].pc = "done" /\ procs[p].op = "getAnnotation"
         /\ procs[p].st = "ok" /\ procs[p].val # JsNull)
        => /\ SampleIdOf(procs[p].val) = procs[p].args[1]
           /\ UserIdOf(procs[p].val) = procs[p].args[2]

\* A save that completes leaves what a lookup of any other pair finds.
SaveFrame ==
    \A p \in Procs :
        (procs[p].pc = "upload" /\ procs'[p].pc = "done" /\ procs'[p].st = "ok")
        => \A s \in PairSampleIds, u \in PairUserIds :
              <<s, u>> # <<SampleIdOf(procs[p].annotation), UserIdOf(procs[p].annotation)>>
              => Found(blobs', s, u) = Found(blobs, s, u)

\* C24: getAnnotation(s, u) only returns annotations whose sampleId is s and
\* whose userId is u, and a save for one pair never changes what getAnnotation
\* returns for another pair.
C24_NoCrossPairLeak == []NoLeak /\ [][SaveFrame]_vars

\* ------------------------------------------------------------------- C25

\* The outcome of a lookup that reads the parsed text: <<st, val>>.
OutcomeOf(parsed) == IF parsed.ok THEN <<"ok", parsed.val>> ELSE <<"CorruptData", JsNull>>

\* The outcome of a lookup of the pair made in one instant on container b:
\* the value at the current key, else the one at the legacy key, else null.
AtomicLookup(b, sampleId, userId) ==
    IF CurrentKey(sampleId, userId) \in DOMAIN b
    THEN OutcomeOf(JsonParse(Utf8Decode(b[CurrentKey(sampleId, userId)])))
    ELSE IF LegacyKey(sampleId, userId) \in DOMAIN b
    THEN OutcomeOf(JsonParse(Utf8Decode(b[LegacyKey(sampleId, userId)])))
    ELSE <<"ok", JsNull>>

\* Container b without the blob at the current key of the pair.
WithoutCurrent(b, sampleId, userId) ==
    [n \in DOMAIN b \ {CurrentKey(sampleId, userId)} |-> b[n]]

\* What getAnnotation returns is null, the legacy value or a value a save was
\* called with.
ValueIsWritten ==
    \A p \in Procs :
        (procs[p].pc = "done" /\ procs[p].op = "getAnnotation"
         /\ procs[p].st = "ok" /\ procs[p].val # JsNull)
        => \/ procs[p].val \in ConcAnnotations
           \/ Holds(LegacyKey(procs[p].args[1], procs[p].args[2]), procs[p].val)

\* The steps of a lookup among the steps of saves.  A lookup goes on to the
\* legacy key only in an instant in which the current key is absent; no step
\* changes the blob at the legacy key; and a lookup none of whose calls was
\* rejected ends with the outcome an atomic lookup has in the instant of its
\* download, or had in the instant in which the current key was absent.
LookupSteps ==
    \A p \in Procs :
        /\ (procs[p].pc = "exists" /\ procs'[p].pc = "legacyExists")
           => CurrentKey(procs[p].sampleId, procs[p].userId) \notin DOMAIN blobs
        /\ procs[p].pc \in {"exists", "legacyExists", "download", "downloadLegacy"}
           => LET k == LegacyKey(procs[p].sampleId, procs[p].userId)
              IN  /\ k \in DOMAIN blobs <=> k \in DOMAIN blobs'
                  /\ k \in DOMAIN blobs => blobs'[k] = blobs[k]
        /\ (/\ procs[p].pc \in {"exists", "legacyExists", "download", "downloadLegacy"}
            /\ procs'[p].pc = "done"
            /\ procs'[p].failed = "none")
           => <<procs'[p].st, procs'[p].val>>
                = IF procs[p].pc = "download"
                  THEN AtomicLookup(blobs, procs[p].sampleId, procs[p].userId)
                  ELSE AtomicLookup(WithoutCurrent(blobs, procs[p].sampleId, procs[p].userId),
                                    procs[p].sampleId, procs[p].userId)

\* C25: the steps of getAnnotation may interleave with saves of the same pair:
\* the lookup does not fail because of it, and it returns null, the legacy
\* value or a value a save wrote, the outcome that was right at an instant of
\* the call.
C25_SafeUnderInterleaving == []ValueIsWritten /\ [][LookupSteps]_vars

\* A lookup that saw no blob at the current key is about to read the legacy
\* key, and a save of the pair has written the current key in the meantime.
C25_Witness ==
    \E p \in Procs :
        /\ procs[p].pc \in {"legacyExists", "downloadLegacy"}
        /\ CurrentKey(procs[p].sampleId, procs[p].userId) \in DOMAIN blobs

\* ------------------------------------------------------------------- C26

\* Caller p's initialize(config) fails in this step.
InitializeFails(p) ==
    /\ procs[p].pc = "idle"
    /\ procs'[p].pc = "done"
    /\ procs'[p].op = "initialize"
    /\ procs'[p].st # "ok"

\* The store as it is before any initialize: both fields the operations test
\* are null, so each of them answers as C7 says.
BeforeAnyInitialize == config = "null" /\ containerClient = "null"

\* C26: an initialize(config) that fails, for a missing connection string or a
\* failed container check, leaves the store as it was before any initialize,
\* so the operations called after it fail with NotInitialized.
C26_FailedInitializeLeavesUninitialized ==
    [][\A p \in Procs :
          (BeforeAnyInitialize /\ InitializeFails(p)) => BeforeAnyInitialize']_vars

\* After a failed initialize the operations that test both fields are still
\* refused (probe: the failed container check alone refutes it).
C26_GateStaysClosed ==
    [][\A p \in Procs :
          (BeforeAnyInitialize /\ InitializeFails(p)) => ~Initialized']_vars

\* After a failed initialize getProjectStats, which tests config alone, is
\* still refused (probe: either failure refutes it).
C26_StatsStayRefused ==
    [][\A p \in Procs :
          (BeforeAnyInitialize /\ InitializeFails(p)) => config' = "null"]_vars

\* ------------------------------------------------------------------- C27

\* The union, over the users, of what getAnnotatedSampleIdsForUser returns on
\* container b.  UserIds holds every user segment and every last piece of a
\* name the containers of this model hold.
UnionOverUsers(b) ==
    UNION {UserAnnotatedIds(b, sanitizePath(u).val) : u \in {v \in UserIds : ValidId(v)}}

\* C27: the sampleIds getProjectStats counts are the union, over the users u,
\* of getAnnotatedSampleIdsForUser(u): both operations attribute each stored
\* key, current or legacy, to the same sampleId.
C27_StatsAgreeWithUsers ==
    \A p \in Procs :
        (Returned(p, "getProjectStats") /\ Initialized /\ procs[p].st = "ok")
        => /\ procs[p].val.annotatedSamples = Cardinality(StatsAnnotatedIds(blobs))
           /\ StatsAnnotatedIds(blobs) = UnionOverUsers(blobs)

\* The flat names of container b all have one underscore.
OneUnderscoreNames(b) ==
    \A n \in AnnotationBlobs(b) :
        LET fileName == ReplaceFirst(n, annotationsPath \o T.slash, <<>>)
        IN  ~Includes(fileName, C.slash) => Len(Split(fileName, C.underscore)) = 2

\* The two operations agree on the containers whose flat names have one
\* underscore (probe: the disagreement is that of the two splits).
C27_AgreeOnOneUnderscore ==
    \A p \in Procs :
        (/\ Returned(p, "getProjectStats") /\ Initialized /\ procs[p].st = "ok"
         /\ OneUnderscoreNames(blobs))
        => StatsAnnotatedIds(blobs) = UnionOverUsers(blobs)

\* ------------------------------------------------------------------- C30

\* What sanitizePath returned is neither empty nor all whitespace.
SanitizedNotBlank ==
    \A p \in Procs :
        (procs[p].pc = "done" /\ procs[p].op = "sanitizePath" /\ procs[p].st = "ok")
        => ValidId(procs[p].val)

\* The user segment and the sample segment of every annotation blob written
\* are neither empty nor all whitespace.
NoBlankSegment ==
    \A n \in AnnotationBlobs(blobs) :
        LET parts == Split(ReplaceFirst(n, annotationsPath \o T.slash, <<>>), C.slash)
        IN  /\ Len(parts) = 2
            /\ ValidId(parts[1])
            /\ EndsWith(parts[2], T.dotJson)
            /\ ValidId(SubSeq(parts[2], 1, Len(parts[2]) - Len(T.dotJson)))

\* C30: whenever sanitize returns a value instead of failing, the value is
\* neither empty nor all whitespace, also for percent-encoded input such as
\* %20, so no key is written with a blank user or sample segment.
C30_IdentifiersSurvive == SanitizedNotBlank /\ NoBlankSegment

\* sanitizePath of an input without a percent sign never returns a blank
\* (probe: the blanks come from the decoding alone).
C30_PlainInputsSurvive ==
    \A p \in Procs :
        (/\ procs[p].pc = "done" /\ procs[p].op = "sanitizePath" /\ procs[p].st = "ok"
         /\ ~Includes(procs[p].args[Len(procs[p].args)], C.percent))
        => ValidId(procs[p].val)

====
